---------------------------- MODULE Spec2Model ----------------------------
(***************************************************************************)
(* Galaxy cluster analysis notebook (src/galaxy_cluster_analysis.ipynb).   *)
(*                                                                         *)
(* The notebook is a straight-line pipeline over one in-memory table:      *)
(*   load -> aggregate -> filter -> kinematics -> geometry -> mass ->      *)
(*   report.                                                               *)
(*                                                                         *)
(* Numbers.  The notebook computes in IEEE doubles; the model computes in  *)
(* exact arithmetic:                                                       *)
(*   - a finite real is a normalised fraction <<n, d>> with d > 0;         *)
(*     NaN is <<0, 0>>;                                                    *)
(*   - a standard deviation is irrational in general, so it is held by its *)
(*     square: [sq |-> variance];                                          *)
(*   - a limit mean + k*std is held as [mean, k, std] and compared         *)
(*     exactly;                                                            *)
(*   - a value that is a multiple of c_light is held as that multiple      *)
(*     ([c_light |-> x] stands for x * c_light km/s);                      *)
(*   - the scalars of the geometry and mass stages are held by IEEE class  *)
(*     ("nan", "-inf", "neg", "zero", "pos", "+inf"): the class of a       *)
(*     product or quotient is determined by the classes of its operands.   *)
(*     The mass formula itself is evaluated exactly, on decimal            *)
(*     scientific numbers, by M_dyn.                                       *)
(* Rounding error of the doubles is outside the model.                     *)
(***************************************************************************)
EXTENDS Integers, Sequences, FiniteSets, TLC

(***************************************************************************)
(* Bounds of the model.                                                    *)
(***************************************************************************)
\* longest free part (arbitrary rows) of a catalog
MaxRows == 3
\* longest free part that is followed by the block of distinct objects
MaxHead == 2
\* size of the block of distinct objects at redshift 0
NBulk == 11
\* scenario: number of cluster members
NCluster == 100
\* scenario: at most this many members one step below / above the centre
MaxSkew == 6

(***************************************************************************)
(* Exact arithmetic.                                                       *)
(***************************************************************************)
Abs(x) == IF x < 0 THEN -x ELSE x

Sign(x) == IF x < 0 THEN -1 ELSE IF x = 0 THEN 0 ELSE 1

RECURSIVE GCD(_, _)
GCD(a, b) == IF b = 0 THEN Abs(a) ELSE GCD(b, a % Abs(b))

LCM(a, b) == (a \div GCD(a, b)) * b

NaN == <<0, 0>>

IsNaN(x) == x[2] = 0

\* the fraction n/d in lowest terms; 0/0 (and, nowhere produced, x/0) is NaN
Frac(n, d) ==
    IF d = 0 THEN NaN
    ELSE LET g == GCD(n, d)
             s == IF d < 0 THEN -1 ELSE 1
         IN  <<s * (n \div g), s * (d \div g)>>

Whole(n) == <<n, 1>>

RAdd(x, y) ==
    IF IsNaN(x) \/ IsNaN(y) THEN NaN
    ELSE LET l == LCM(x[2], y[2])
         IN  Frac(x[1] * (l \div x[2]) + y[1] * (l \div y[2]), l)

RNeg(x) == IF IsNaN(x) THEN NaN ELSE <<-x[1], x[2]>>

RSub(x, y) == RAdd(x, RNeg(y))

RMul(x, y) ==
    IF IsNaN(x) \/ IsNaN(y) THEN NaN
    ELSE LET g1 == GCD(x[1], y[2])
             g2 == GCD(y[1], x[2])
         IN  Frac((x[1] \div g1) * (y[1] \div g2), (x[2] \div g2) * (y[2] \div g1))

\* x / y; 0/0 is NaN.  The model never divides a non-zero fraction by zero.
RDiv(x, y) ==
    IF IsNaN(x) \/ IsNaN(y) \/ y[1] = 0 THEN NaN
    ELSE RMul(x, Frac(y[2], y[1]))

RSign(x) == Sign(x[1])

\* the sign of p/q - r/s for naturals p, r and positive q, s, by Euclid's
\* algorithm (no product is formed)
RECURSIVE FracCmp(_, _, _, _)
FracCmp(p, q, r, s) ==
    LET fp == p \div q
        fr == r \div s
        p1 == p % q
        r1 == r % s
    IN  IF fp # fr THEN (IF fp < fr THEN -1 ELSE 1)
        ELSE IF p1 = 0 /\ r1 = 0 THEN 0
        ELSE IF p1 = 0 THEN -1
        ELSE IF r1 = 0 THEN 1
        ELSE FracCmp(s, r1, q, p1)

\* the sign of a*b - c*d for naturals
CmpProd(a, b, c, d) ==
    IF a = 0 \/ b = 0 THEN (IF c = 0 \/ d = 0 THEN 0 ELSE -1)
    ELSE IF c = 0 \/ d = 0 THEN 1
    ELSE FracCmp(a, c, d, b)

\* the sign of x - y for fractions (not NaN)
RCmp(x, y) ==
    LET sx == RSign(x)
        sy == RSign(y)
    IN  IF sx # sy THEN (IF sx < sy THEN -1 ELSE 1)
        ELSE IF sx = 0 THEN 0
        ELSE sx * CmpProd(Abs(x[1]), y[2], Abs(y[1]), x[2])

\* the sign of x*x - y for fractions x and y >= 0 (not NaN)
SqCmp(x, y) ==
    LET p == Abs(x[1])
        q == x[2]
        g == GCD(y[2], q * q)
    IN  CmpProd(p * (y[2] \div g), p, y[1], (q * q) \div g)

(***************************************************************************)
(* The CSV catalogs the model reads.  A row has the columns objid, ra,     *)
(* dec, specz, proj_sep (line 85 reads whatever the file holds; nothing is *)
(* validated).  A catalog is a free part of arbitrary rows, optionally     *)
(* followed by a block of NBulk distinct objects at redshift 0: the        *)
(* 3-sigma cut can only reject an object when there are at least 11.       *)
(* Positions differ from row to row (ra, dec and proj_sep are functions of *)
(* the row's place), so that "first" is distinguishable.                   *)
(***************************************************************************)
ObjIds == {1, 2, 3}

SpecZ == {Whole(-2), Whole(-1), Whole(0), Whole(1)}

Row(id, z, i, n) ==
    [objid |-> id, specz |-> z, ra |-> 10 + i, dec |-> 20 + 2 * i, proj_sep |-> n - i]

HeadsOf(k) == [1..k -> ObjIds \X SpecZ]

\* the catalog with free part h, followed by b block rows (objids above 100)
Catalog(h, b) ==
    LET k == Len(h)
        n == k + b
    IN  [i \in 1..n |->
            IF i <= k THEN Row(h[i][1], h[i][2], i, n)
            ELSE Row(200 - i, Whole(0), i, n)]

Catalogs ==
    {Catalog(h, 0) : h \in UNION {HeadsOf(k) : k \in 0..MaxRows}}
        \cup {Catalog(h, NBulk) : h \in UNION {HeadsOf(k) : k \in 0..MaxHead}}

\* The end-to-end scenario: NCluster distinct objects with redshifts around
\* 0.05 in steps of 0.01 (below of them at 0.04, above of them at 0.06, the
\* others at 0.05) and one more object at z = 5.0, in row p.
Outlier == Whole(5)

ScenarioCatalog(below, above, p) ==
    LET n == NCluster + 1
    IN  [i \in 1..n |->
            LET j == IF i < p THEN i ELSE i - 1
                z == IF i = p THEN Outlier
                     ELSE IF j <= below THEN Frac(4, 100)
                     ELSE IF j > NCluster - above THEN Frac(6, 100)
                     ELSE Frac(5, 100)
            IN  Row(1000 - i, z, i, n)]

ScenarioCatalogs ==
    {ScenarioCatalog(b, a, p) : b \in 0..MaxSkew, a \in 0..MaxSkew, p \in {1, NCluster + 1}}

(***************************************************************************)
(* State.                                                                  *)
(***************************************************************************)
VARIABLES
    pc,              \* the next stage to run, "done" or "error"
    ran,             \* the stages run so far, in order
    csv_file,        \* the rows of the file at csv_file_path
    df,              \* line 85
    averaged_df,     \* line 116
    mean_redshift,   \* line 144
    std_redshift,    \* line 145
    lower_limit,     \* line 146
    upper_limit,     \* line 147
    filtered_df,     \* line 232
    cluster_redshift,\* line 321
    disp,            \* line 332
    max_sep_arcmin,  \* line 460
    diameter,        \* line 464
    M_dyn_solar,     \* line 510
    report,          \* lines 531-540: the values printed
    probe            \* evaluations of the mass formula on chosen inputs

vars == <<pc, ran, csv_file, df, averaged_df, mean_redshift, std_redshift,
          lower_limit, upper_limit, filtered_df, cluster_redshift, disp,
          max_sep_arcmin, diameter, M_dyn_solar, report, probe>>

\* a name that is not bound yet
Unset == "unset"

(***************************************************************************)
(* Stage 2: the aggregator (lines 116-121).                                *)
(***************************************************************************)
\* groupby('objid') over rows lo..hi: per key, the sum and the count of specz
\* and the first row in input order.  Recursion halves the range (the depth
\* of evaluation stays logarithmic in the number of rows).
RECURSIVE GroupBy(_, _, _)
GroupBy(d, lo, hi) ==
    IF lo > hi THEN <<>>
    ELSE IF lo = hi
    THEN [k \in {d[lo].objid} |-> [sum |-> d[lo].specz, count |-> 1, first |-> d[lo]]]
    ELSE LET mid == (lo + hi) \div 2
             l == GroupBy(d, lo, mid)
             r == GroupBy(d, mid + 1, hi)
         IN  [k \in DOMAIN l \cup DOMAIN r |->
                IF k \notin DOMAIN r THEN l[k]
                ELSE IF k \notin DOMAIN l THEN r[k]
                ELSE [sum |-> RAdd(l[k].sum, r[k].sum),
                      count |-> l[k].count + r[k].count,
                      first |-> l[k].first]]

\* the group keys in ascending order (groupby sorts its keys)
SortedKeys(S) ==
    [j \in 1..Cardinality(S) |->
        CHOOSE k \in S : Cardinality({x \in S : x < k}) = j - 1]

\* the first value instead of the mean
AggSpeczFirst(g) == g.first.specz

\* 'specz': 'mean'
AggSpecz(g) == RDiv(g.sum, Whole(g.count))

\* the last row of the group instead of the first
AggLast(g) ==
    LET I == {i \in 1..Len(df) : df[i].objid = g.first.objid}
    IN  df[CHOOSE i \in I : \A k \in I : k <= i]

\* 'ra': 'first', 'dec': 'first', 'proj_sep': 'first'
AggFirst(g) == g.first

\* .agg({...}).reset_index()
Aggregated(d) ==
    LET groups == GroupBy(d, 1, Len(d))
        keys == SortedKeys(DOMAIN groups)
    IN  [j \in 1..Len(keys) |->
            LET g == groups[keys[j]]
            IN  [objid |-> keys[j],
                 specz |-> AggSpecz(g),
                 ra |-> AggFirst(g).ra,
                 dec |-> AggFirst(g).dec,
                 proj_sep |-> AggFirst(g).proj_sep]]

(***************************************************************************)
(* Stage 3: the outlier filter (lines 144-147 and 232-239).                *)
(***************************************************************************)
SpeczOf(tbl) == [i \in 1..Len(tbl) |-> tbl[i].specz]

RECURSIVE SumRange(_, _, _)
SumRange(col, lo, hi) ==
    IF lo > hi THEN Whole(0)
    ELSE IF lo = hi THEN col[lo]
    ELSE LET mid == (lo + hi) \div 2
         IN  RAdd(SumRange(col, lo, mid), SumRange(col, mid + 1, hi))

SeriesSum(col) == SumRange(col, 1, Len(col))

\* Series.mean(): NaN for an empty column
SeriesMean(col) == RDiv(SeriesSum(col), Whole(Len(col)))

Squares(col) == [i \in 1..Len(col) |-> RMul(col[i], col[i])]

\* the sum of the squared deviations from the mean, times the length:
\* N * sum(z^2) - (sum z)^2
NSumSqDev(col) ==
    LET s == SeriesSum(col)
    IN  RSub(RMul(Whole(Len(col)), SeriesSum(Squares(col))), RMul(s, s))

\* the variance with divisor N - ddof; NaN when N - ddof = 0 or N = 0
Variance(col, ddof) ==
    LET n == Len(col)
    IN  IF n = 0 THEN NaN
        ELSE RDiv(NSumSqDev(col), Whole(n * (n - ddof)))

\* the population standard deviation (ddof = 0) instead
SeriesStdPopulation(col) == [sq |-> Variance(col, 0)]

\* Series.std(): pandas' default is ddof = 1
SeriesStd(col) == [sq |-> Variance(col, 1)]

\* mean + k * std
Limit(m, k, s) == [mean |-> m, k |-> k, std |-> s]

\* the strict comparison z > mean + k*std in place of >=
GtLimit(z, lim) ==
    LET d == RSub(z, lim.mean)
        y == RMul(Whole(lim.k * lim.k), lim.std.sq)
    IN  IF IsNaN(d) \/ IsNaN(y) THEN FALSE
        ELSE IF lim.k <= 0
        THEN \/ RSign(d) > 0
             \/ RSign(d) = 0 /\ RSign(y) > 0
             \/ RSign(d) < 0 /\ SqCmp(d, y) < 0
        ELSE RSign(d) > 0 /\ SqCmp(d, y) > 0

\* z >= mean + k*std; False when a side is NaN
GeLimit(z, lim) ==
    LET d == RSub(z, lim.mean)
        y == RMul(Whole(lim.k * lim.k), lim.std.sq)
    IN  IF IsNaN(d) \/ IsNaN(y) THEN FALSE
        ELSE IF lim.k <= 0 THEN RSign(d) >= 0 \/ SqCmp(d, y) <= 0
        ELSE RSign(d) >= 0 /\ SqCmp(d, y) >= 0

\* z <= mean + k*std; False when a side is NaN
LeLimit(z, lim) ==
    LET d == RSub(z, lim.mean)
        y == RMul(Whole(lim.k * lim.k), lim.std.sq)
    IN  IF IsNaN(d) \/ IsNaN(y) THEN FALSE
        ELSE IF lim.k >= 0 THEN RSign(d) <= 0 \/ SqCmp(d, y) <= 0
        ELSE RSign(d) <= 0 /\ SqCmp(d, y) >= 0

\* the mask without its upper limit
InLimitsLowerOnly(z, lo, hi) == GeLimit(z, lo)

\* the boolean mask of lines 233-234
InLimits(z, lo, hi) == GeLimit(z, lo) /\ LeLimit(z, hi)

RECURSIVE SelectRows(_, _, _, _, _)
SelectRows(tbl, lo, hi, lower, upper) ==
    IF lo > hi THEN <<>>
    ELSE IF lo = hi
    THEN (IF InLimits(tbl[lo].specz, lower, upper) THEN <<tbl[lo]>> ELSE <<>>)
    ELSE LET mid == (lo + hi) \div 2
         IN  SelectRows(tbl, lo, mid, lower, upper)
                 \o SelectRows(tbl, mid + 1, hi, lower, upper)

\* averaged_df[mask].copy()
Filtered(tbl, lo, hi) == SelectRows(tbl, 1, Len(tbl), lo, hi)

(***************************************************************************)
(* Stage 4: kinematics (lines 257 and 321-332).                            *)
(***************************************************************************)
\* c_light * specz, in km/s
Velocity(z) == [c_light |-> z]

\* the second term of the numerator not squared
VDispersionUnsquared(z, z_cluster) ==
    LET a == RAdd(Whole(1), z)
        b == RAdd(Whole(1), z_cluster)
        a2 == RMul(a, a)
        b2 == RMul(b, b)
    IN  [c_light |-> RDiv(RSub(a2, b), RAdd(a2, b2))]

\* c_light * ((1+z)^2 - (1+z_cluster)^2) / ((1+z)^2 + (1+z_cluster)^2)
VDispersion(z, z_cluster) ==
    LET a == RAdd(Whole(1), z)
        b == RAdd(Whole(1), z_cluster)
        a2 == RMul(a, a)
        b2 == RMul(b, b)
    IN  [c_light |-> RDiv(RSub(a2, b2), RAdd(a2, b2))]

\* the column added to the rows in reverse order (a re-sorted table)
WithVelocityReversed(tbl) ==
    [i \in 1..Len(tbl) |->
        [c \in DOMAIN tbl[i] \cup {"velocity"} |->
            IF c = "velocity" THEN Velocity(tbl[Len(tbl) + 1 - i].specz)
            ELSE tbl[Len(tbl) + 1 - i][c]]]

\* filtered_df['velocity'] = ...
WithVelocity(tbl) ==
    [i \in 1..Len(tbl) |->
        [c \in DOMAIN tbl[i] \cup {"velocity"} |->
            IF c = "velocity" THEN Velocity(tbl[i].specz) ELSE tbl[i][c]]]

\* filtered_df['v_dispersion'] = ...
WithVDispersion(tbl, z_cluster) ==
    [i \in 1..Len(tbl) |->
        [c \in DOMAIN tbl[i] \cup {"v_dispersion"} |->
            IF c = "v_dispersion" THEN VDispersion(tbl[i].specz, z_cluster)
            ELSE tbl[i][c]]]

\* np.std(v_dispersion), by class: NaN for an empty array or one holding a
\* NaN, 0 when all elements are equal, positive otherwise
NpStd(col) ==
    IF Len(col) = 0 \/ \E i \in 1..Len(col) : IsNaN(col[i].c_light) THEN "nan"
    ELSE IF \A i \in 1..Len(col) : col[i] = col[1] THEN "zero"
    ELSE "pos"

(***************************************************************************)
(* IEEE classes of the scalars of the geometry and mass stages.            *)
(***************************************************************************)
Classes == {"nan", "-inf", "neg", "zero", "pos", "+inf"}

ClsOf(x) ==
    IF IsNaN(x) THEN "nan"
    ELSE IF x[1] < 0 THEN "neg" ELSE IF x[1] = 0 THEN "zero" ELSE "pos"

ClsSign(a) == IF a \in {"-inf", "neg"} THEN -1 ELSE IF a = "zero" THEN 0 ELSE 1

ClsInf(a) == a \in {"-inf", "+inf"}

ClsMake(sign, inf) ==
    IF inf THEN (IF sign < 0 THEN "-inf" ELSE "+inf")
    ELSE IF sign < 0 THEN "neg" ELSE IF sign = 0 THEN "zero" ELSE "pos"

\* a * b: NaN absorbs, and inf * 0 is NaN
ClsMul(a, b) ==
    IF a = "nan" \/ b = "nan" THEN "nan"
    ELSE IF (ClsInf(a) /\ b = "zero") \/ (a = "zero" /\ ClsInf(b)) THEN "nan"
    ELSE ClsMake(ClsSign(a) * ClsSign(b), ClsInf(a) \/ ClsInf(b))

\* a / b on numpy doubles: NaN absorbs, 0/0 and inf/inf are NaN, x/0 is an
\* infinity (the zeros the notebook divides by are +0.0), x/inf is 0
ClsDiv(a, b) ==
    IF a = "nan" \/ b = "nan" THEN "nan"
    ELSE IF (a = "zero" /\ b = "zero") \/ (ClsInf(a) /\ ClsInf(b)) THEN "nan"
    ELSE IF b = "zero" THEN ClsMake(ClsSign(a), TRUE)
    ELSE IF ClsInf(b) THEN "zero"
    ELSE ClsMake(ClsSign(a) * ClsSign(b), ClsInf(a))

(***************************************************************************)
(* Decimal scientific numbers r * 10^e, for the constants and the exact    *)
(* evaluation of the mass formula.                                         *)
(***************************************************************************)
Sci(m, e) == [r |-> Frac(m, 1), e |-> e]

SciOfFrac(x) == [r |-> x, e |-> 0]

SciMul(a, b) == [r |-> RMul(a.r, b.r), e |-> a.e + b.e]

SciDiv(a, b) == [r |-> RDiv(a.r, b.r), e |-> a.e - b.e]

SciCls(a) == ClsOf(a.r)

RECURSIVE Pow10(_)
Pow10(k) == IF k = 0 THEN 1 ELSE 10 * Pow10(k - 1)

\* a and b are the same number
SciEq(a, b) ==
    IF IsNaN(a.r) \/ IsNaN(b.r) THEN FALSE
    ELSE IF a.e >= b.e THEN RMul(a.r, Whole(Pow10(a.e - b.e))) = b.r
    ELSE RMul(b.r, Whole(Pow10(b.e - a.e))) = a.r

(***************************************************************************)
(* Physical constants.                                                     *)
(***************************************************************************)
\* line 59: cosmo.H0.value of Planck18, 67.66 km/s/Mpc
H_0 == Frac(6766, 100)

\* line 60: c.to('km/s').value, 299792.458 km/s
c_light == Frac(299792458, 1000)

\* line 62
q0 == Frac(-534, 1000)

\* line 504: 1 Mpc = 3.086e22 m
Mpc_in_m == Sci(3086, 19)

\* line 505
G_SI == Sci(6674, -14)

\* line 506
M_sun == Sci(1989, 27)

(***************************************************************************)
(* Stage 5: geometry (lines 453-464).                                      *)
(***************************************************************************)
\* Series.max(): NaN for an empty column
RECURSIVE MaxRange(_, _, _)
MaxRange(col, lo, hi) ==
    IF lo = hi THEN col[lo]
    ELSE LET mid == (lo + hi) \div 2
             l == MaxRange(col, lo, mid)
             r == MaxRange(col, mid + 1, hi)
         IN  IF r > l THEN r ELSE l

SeriesMax(col) == IF Len(col) = 0 THEN NaN ELSE Whole(MaxRange(col, 1, Len(col)))

ProjSepOf(tbl) == [i \in 1..Len(tbl) |-> tbl[i].proj_sep]

\* line 453: (c_light * z_cluster / H_0) * (1 - (z_cluster/2) * (1 + q0))
RComoving(z_cluster) ==
    ClsMul(ClsDiv(ClsMul(ClsOf(c_light), ClsOf(z_cluster)), ClsOf(H_0)),
           ClsOf(RSub(Whole(1),
                      RMul(RDiv(z_cluster, Whole(2)), RAdd(Whole(1), q0)))))

\* line 456: r_comoving / (1 + z_cluster)
AngularDiameterDistance(r_comoving, z_cluster) ==
    ClsDiv(r_comoving, ClsOf(RAdd(Whole(1), z_cluster)))

\* line 461: max_sep_arcmin * (np.pi / 180) / 60
MaxSepRadians(max_sep) ==
    ClsDiv(ClsMul(ClsOf(max_sep), ClsDiv("pos", ClsOf(Whole(180)))), ClsOf(Whole(60)))

\* line 464: 2 * D_A * max_sep_radians
Diameter(z_cluster, max_sep) ==
    ClsMul(ClsMul(ClsOf(Whole(2)),
                  AngularDiameterDistance(RComoving(z_cluster), z_cluster)),
           MaxSepRadians(max_sep))

(***************************************************************************)
(* Stage 6: the mass estimate (lines 503-510), on exact numbers and on     *)
(* classes.                                                                *)
(***************************************************************************)
\* the dispersion not squared
M_dynLinear(sigma, diam) ==
    LET sigma_ms == SciMul(sigma, Sci(1, 3))
        R_meters == SciMul(SciMul(diam, Sci(5, -1)), Mpc_in_m)
        M == SciDiv(SciMul(SciMul(Sci(3, 0), sigma_ms), R_meters), G_SI)
    IN  [M_dyn |-> M, M_dyn_solar |-> SciDiv(M, M_sun)]

\* M_dyn = (3 * sigma_ms**2 * R_meters) / G_SI, M_dyn_solar = M_dyn / M_sun
M_dyn(sigma, diam) ==
    LET sigma_ms == SciMul(sigma, Sci(1, 3))
        R_meters == SciMul(SciMul(diam, Sci(5, -1)), Mpc_in_m)
        M == SciDiv(SciMul(SciMul(Sci(3, 0), SciMul(sigma_ms, sigma_ms)), R_meters), G_SI)
    IN  [M_dyn |-> M, M_dyn_solar |-> SciDiv(M, M_sun)]

\* the same expressions on classes
MassClass(sigma, diam) ==
    LET sigma_ms == ClsMul(sigma, SciCls(Sci(1, 3)))
        R_meters == ClsMul(ClsMul(diam, SciCls(Sci(5, -1))), SciCls(Mpc_in_m))
        M == ClsDiv(ClsMul(ClsMul(SciCls(Sci(3, 0)), ClsMul(sigma_ms, sigma_ms)), R_meters),
                    SciCls(G_SI))
    IN  [M_dyn |-> M, M_dyn_solar |-> ClsDiv(M, SciCls(M_sun))]

(***************************************************************************)
(* The pipeline.                                                           *)
(***************************************************************************)
Stages == <<"load", "aggregate", "filter", "kinematics", "geometry", "mass", "report">>

Init ==
    /\ pc = "load"
    /\ ran = <<>>
    /\ csv_file \in Catalogs
    /\ df = Unset
    /\ averaged_df = Unset
    /\ mean_redshift = Unset
    /\ std_redshift = Unset
    /\ lower_limit = Unset
    /\ upper_limit = Unset
    /\ filtered_df = Unset
    /\ cluster_redshift = Unset
    /\ disp = Unset
    /\ max_sep_arcmin = Unset
    /\ diameter = Unset
    /\ M_dyn_solar = Unset
    /\ report = Unset
    /\ probe = [step |-> "off"]

\* line 85: df = pd.read_csv(csv_file_path)
Load ==
    /\ pc = "load"
    /\ df' = csv_file
    /\ pc' = "aggregate"
    /\ ran' = Append(ran, "load")
    /\ UNCHANGED <<csv_file, averaged_df, mean_redshift, std_redshift, lower_limit,
                   upper_limit, filtered_df, cluster_redshift, disp, max_sep_arcmin,
                   diameter, M_dyn_solar, report, probe>>

\* lines 116-121
Aggregate ==
    /\ pc = "aggregate"
    /\ averaged_df' = Aggregated(df)
    /\ pc' = "filter"
    /\ ran' = Append(ran, "aggregate")
    /\ UNCHANGED <<csv_file, df, mean_redshift, std_redshift, lower_limit,
                   upper_limit, filtered_df, cluster_redshift, disp, max_sep_arcmin,
                   diameter, M_dyn_solar, report, probe>>

\* lines 144-147 and 232-239.  Line 239 divides by len(averaged_df): with no
\* aggregated object the cell ends in ZeroDivisionError, after filtered_df
\* is bound.
Filter ==
    /\ pc = "filter"
    /\ mean_redshift' = SeriesMean(SpeczOf(averaged_df))
    /\ std_redshift' = SeriesStd(SpeczOf(averaged_df))
    /\ lower_limit' = Limit(mean_redshift', -3, std_redshift')
    /\ upper_limit' = Limit(mean_redshift', 3, std_redshift')
    /\ filtered_df' = Filtered(averaged_df, lower_limit', upper_limit')
    /\ pc' = IF Len(averaged_df) = 0 THEN "error" ELSE "kinematics"
    /\ ran' = Append(ran, "filter")
    /\ UNCHANGED <<csv_file, df, averaged_df, cluster_redshift, disp, max_sep_arcmin,
                   diameter, M_dyn_solar, report, probe>>

\* the mean over the unfiltered table
ClusterRedshiftOfAveraged(tbl) == SeriesMean(SpeczOf(averaged_df))

\* line 321
ClusterRedshift(tbl) == SeriesMean(SpeczOf(tbl))

\* lines 257 and 324-329: the two derived columns
WithDerivedColumns(tbl, z_cluster) == WithVDispersion(WithVelocity(tbl), z_cluster)

VDispersionOf(tbl) == [i \in 1..Len(tbl) |-> tbl[i].v_dispersion]

\* lines 257 and 321-332
Kinematics ==
    /\ pc = "kinematics"
    /\ cluster_redshift' = ClusterRedshift(filtered_df)
    /\ filtered_df' = WithDerivedColumns(filtered_df, cluster_redshift')
    /\ disp' = NpStd(VDispersionOf(filtered_df'))
    /\ pc' = "geometry"
    /\ ran' = Append(ran, "kinematics")
    /\ UNCHANGED <<csv_file, df, averaged_df, mean_redshift, std_redshift, lower_limit,
                   upper_limit, max_sep_arcmin, diameter, M_dyn_solar, report, probe>>

\* line 460
MaxSepArcmin(tbl) == SeriesMax(ProjSepOf(tbl))

\* lines 452-464
Geometry ==
    /\ pc = "geometry"
    /\ max_sep_arcmin' = MaxSepArcmin(filtered_df)
    /\ diameter' = Diameter(cluster_redshift, max_sep_arcmin')
    /\ pc' = "mass"
    /\ ran' = Append(ran, "geometry")
    /\ UNCHANGED <<csv_file, df, averaged_df, mean_redshift, std_redshift, lower_limit,
                   upper_limit, filtered_df, cluster_redshift, disp, M_dyn_solar,
                   report, probe>>

\* lines 503-510
Mass ==
    /\ pc = "mass"
    /\ M_dyn_solar' = MassClass(disp, diameter).M_dyn_solar
    /\ pc' = "report"
    /\ ran' = Append(ran, "mass")
    /\ UNCHANGED <<csv_file, df, averaged_df, mean_redshift, std_redshift, lower_limit,
                   upper_limit, filtered_df, cluster_redshift, disp, max_sep_arcmin,
                   diameter, report, probe>>

\* lines 531-540: the values handed to the summary's print calls
Summary(tbl, z_cluster, sigma, diam, mass) ==
    [n_galaxies |-> Len(tbl), cluster_redshift |-> z_cluster, disp |-> sigma,
     diameter |-> diam, M_dyn_solar |-> mass]

Report ==
    /\ pc = "report"
    /\ report' = Summary(filtered_df, cluster_redshift, disp, diameter, M_dyn_solar)
    /\ pc' = "done"
    /\ ran' = Append(ran, "report")
    /\ UNCHANGED <<csv_file, df, averaged_df, mean_redshift, std_redshift, lower_limit,
                   upper_limit, filtered_df, cluster_redshift, disp, max_sep_arcmin,
                   diameter, M_dyn_solar, probe>>

Next == Load \/ Aggregate \/ Filter \/ Kinematics \/ Geometry \/ Mass \/ Report

Spec == Init /\ [][Next]_vars

(***************************************************************************)
(* The pipeline on the end-to-end scenario.                                *)
(***************************************************************************)
PipelineUnset ==
    /\ ran = <<>>
    /\ df = Unset
    /\ averaged_df = Unset
    /\ mean_redshift = Unset
    /\ std_redshift = Unset
    /\ lower_limit = Unset
    /\ upper_limit = Unset
    /\ filtered_df = Unset
    /\ cluster_redshift = Unset
    /\ disp = Unset
    /\ max_sep_arcmin = Unset
    /\ diameter = Unset
    /\ M_dyn_solar = Unset
    /\ report = Unset

ScenarioInit ==
    /\ pc = "load"
    /\ csv_file \in ScenarioCatalogs
    /\ PipelineUnset
    /\ probe = [step |-> "off"]

ScenarioSpec == ScenarioInit /\ [][Next]_vars

(***************************************************************************)
(* The mass formula of lines 503-510 as a function, evaluated on chosen    *)
(* inputs, on the doubled dispersion and on the doubled diameter.          *)
(***************************************************************************)
\* the inputs on which the mass formula is evaluated
SigmaInputs ==
    {Sci(0, 0), Sci(1, 0), Sci(3, 0), Sci(1, 3), Sci(7, 2), SciOfFrac(Frac(1, 2))}

DiameterInputs ==
    {Sci(0, 0), Sci(1, 0), Sci(2, 0), Sci(5, 0), Sci(-1, 0), SciOfFrac(Frac(3, 2))}

Doubled(x) == SciMul(Sci(2, 0), x)

MassInit ==
    /\ pc = "off"
    /\ csv_file = <<>>
    /\ PipelineUnset
    /\ probe \in [step : {"input"}, sigma : SigmaInputs, diam : DiameterInputs]

PipelineUnchanged ==
    UNCHANGED <<pc, ran, csv_file, df, averaged_df, mean_redshift, std_redshift,
                lower_limit, upper_limit, filtered_df, cluster_redshift, disp,
                max_sep_arcmin, diameter, M_dyn_solar, report>>

EvalMass ==
    /\ probe.step = "input"
    /\ probe' = [step |-> "base", sigma |-> probe.sigma, diam |-> probe.diam,
                 base |-> M_dyn(probe.sigma, probe.diam)]
    /\ PipelineUnchanged

EvalDoubledSigma ==
    /\ probe.step = "base"
    /\ probe' = [step |-> "sigma2", sigma |-> probe.sigma, diam |-> probe.diam,
                 base |-> probe.base,
                 sigma2 |-> M_dyn(Doubled(probe.sigma), probe.diam)]
    /\ PipelineUnchanged

EvalDoubledDiameter ==
    /\ probe.step = "sigma2"
    /\ probe' = [step |-> "done", sigma |-> probe.sigma, diam |-> probe.diam,
                 base |-> probe.base, sigma2 |-> probe.sigma2,
                 diam2 |-> M_dyn(probe.sigma, Doubled(probe.diam))]
    /\ PipelineUnchanged

MassNext == EvalMass \/ EvalDoubledSigma \/ EvalDoubledDiameter

MassSpec == MassInit /\ [][MassNext]_vars

(***************************************************************************)
(* Properties.                                                             *)
(***************************************************************************)
\* the number of stages that have run
StagesRun == Len(ran)

\* the places of the rows of tbl that carry objid id
IdxOf(tbl, id) == {i \in 1..Len(tbl) : tbl[i].objid = id}

\* the sum of the entries of col at the places I
RECURSIVE SumOver(_, _)
SumOver(col, I) ==
    IF I = {} THEN Whole(0)
    ELSE LET i == CHOOSE x \in I : TRUE
         IN  RAdd(col[i], SumOver(col, I \ {i}))

\* C1: after the aggregation, averaged_df holds exactly one row per distinct
\* objid of the raw catalog (and no other row), and the specz of that row is
\* the arithmetic mean of the specz of all raw rows with that objid
\* (count * mean = sum).
C1_OneRowPerObjidWithMeanSpecz ==
    StagesRun >= 2 =>
        LET ids == {df[i].objid : i \in 1..Len(df)}
        IN  /\ Len(averaged_df) = Cardinality(ids)
            /\ \A id \in ids : Cardinality(IdxOf(averaged_df, id)) = 1
            /\ \A j \in 1..Len(averaged_df) :
                  LET I == IdxOf(df, averaged_df[j].objid)
                  IN  /\ I # {}
                      /\ RMul(averaged_df[j].specz, Whole(Cardinality(I)))
                            = SumOver(SpeczOf(df), I)

\* a catalog with two objects, one of them observed several times with a mean
\* that is none of its observations, has been aggregated
C1_Witness ==
    /\ StagesRun >= 2
    /\ Len(averaged_df) >= 2
    /\ \E j \in 1..Len(averaged_df) :
          LET I == IdxOf(df, averaged_df[j].objid)
          IN  /\ Cardinality(I) >= 2
              /\ \A i \in I : df[i].specz # averaged_df[j].specz

\* mu - 3 sigma <= z <= mu + 3 sigma, for the mu and sigma of the filter stage
InsideBand(z) ==
    /\ ~IsNaN(mean_redshift)
    /\ ~IsNaN(std_redshift.sq)
    /\ SqCmp(RSub(z, mean_redshift), RMul(Whole(9), std_redshift.sq)) <= 0

\* z < mu - 3 sigma
BelowBand(z) ==
    /\ ~IsNaN(mean_redshift)
    /\ ~IsNaN(std_redshift.sq)
    /\ RSign(RSub(z, mean_redshift)) < 0
    /\ SqCmp(RSub(z, mean_redshift), RMul(Whole(9), std_redshift.sq)) > 0

\* z > mu + 3 sigma
AboveBand(z) ==
    /\ ~IsNaN(mean_redshift)
    /\ ~IsNaN(std_redshift.sq)
    /\ RSign(RSub(z, mean_redshift)) > 0
    /\ SqCmp(RSub(z, mean_redshift), RMul(Whole(9), std_redshift.sq)) > 0

Kept(j) == \E i \in 1..Len(filtered_df) : filtered_df[i].objid = averaged_df[j].objid

\* C2: after the filter, every object kept in filtered_df has its specz in
\* the closed interval [mu - 3 sigma, mu + 3 sigma], and every object of
\* averaged_df that is not kept has its specz strictly below mu - 3 sigma or
\* strictly above mu + 3 sigma.
C2_KeptInsideRejectedOutside ==
    StagesRun >= 3 =>
        \A j \in 1..Len(averaged_df) :
            /\ Kept(j) => InsideBand(averaged_df[j].specz)
            /\ ~Kept(j) => (BelowBand(averaged_df[j].specz) \/ AboveBand(averaged_df[j].specz))

\* the aggregated set is empty, or its standard deviation is undefined or 0
Degenerate ==
    \/ Len(averaged_df) = 0
    \/ IsNaN(std_redshift.sq)
    \/ std_redshift.sq = Whole(0)

\* C3: when the aggregated set is empty or the standard deviation of its
\* redshifts is 0 or undefined, the run stops in the error state at the
\* filter stage: no later stage runs and nothing is reported.
C3_DegenerateStopsInError ==
    (StagesRun >= 3 /\ Degenerate) => (pc = "error" /\ StagesRun = 3)

\* the sum of the squared deviations of col from m, term by term
SumSqDev(col, m) ==
    SumOver([i \in 1..Len(col) |-> RMul(RSub(col[i], m), RSub(col[i], m))], 1..Len(col))

\* mean_redshift, lower_limit and upper_limit are those of the whole
\* aggregated set, and the mask is the one these limits give
LimitsOverAggregatedSet ==
    LET col == SpeczOf(averaged_df)
    IN  /\ mean_redshift = RDiv(SumOver(col, 1..Len(col)), Whole(Len(col)))
        /\ lower_limit = [mean |-> mean_redshift, k |-> -3, std |-> std_redshift]
        /\ upper_limit = [mean |-> mean_redshift, k |-> 3, std |-> std_redshift]
        /\ \A j \in 1..Len(averaged_df) : Kept(j) <=> InsideBand(averaged_df[j].specz)

\* C9 as stated: from the filter stage on, the limits are mu - 3 sigma and
\* mu + 3 sigma with mu the mean and sigma the population standard deviation
\* (divisor N) of the redshifts of all aggregated objects, computed once.
C9_PopulationStd ==
    StagesRun >= 3 =>
        LET col == SpeczOf(averaged_df)
            n == Len(col)
        IN  /\ LimitsOverAggregatedSet
            /\ IF n = 0 THEN IsNaN(std_redshift.sq)
               ELSE RMul(std_redshift.sq, Whole(n)) = SumSqDev(col, mean_redshift)

\* C9 amended: from the filter stage on, the limits are mu - 3 sigma and
\* mu + 3 sigma with mu the mean and sigma the sample standard deviation
\* (divisor N - 1; undefined, NaN, for fewer than two objects) of the
\* redshifts of all aggregated objects; they stay those of the whole
\* aggregated set in every later stage (they are not recomputed on the
\* filtered set), and an object is kept exactly when it is within them.
C9_SampleStdSinglePass ==
    StagesRun >= 3 =>
        LET col == SpeczOf(averaged_df)
            n == Len(col)
        IN  /\ LimitsOverAggregatedSet
            /\ IF n <= 1 THEN IsNaN(std_redshift.sq)
               ELSE RMul(std_redshift.sq, Whole(n - 1)) = SumSqDev(col, mean_redshift)

\* a finished run in which an object was rejected and a kept object lies
\* outside the 3-sigma limits recomputed on the filtered set
C9_Witness ==
    /\ pc = "done"
    /\ Len(filtered_df) < Len(averaged_df)
    /\ LET col == SpeczOf(filtered_df)
           n == Len(col)
           m == RDiv(SumOver(col, 1..n), Whole(n))
       IN  /\ n >= 2
           /\ \E i \in 1..n :
                 SqCmp(RSub(col[i], m),
                       RMul(Whole(9), RDiv(SumSqDev(col, m), Whole(n - 1)))) > 0

CoreColumns == {"objid", "specz", "ra", "dec", "proj_sep"}

\* a row without its derived columns
Core(r) == [c \in CoreColumns |-> r[c]]

\* the largest proj_sep of tbl, NaN for an empty table
LargestSep(tbl) ==
    IF Len(tbl) = 0 THEN NaN
    ELSE LET seps == {tbl[i].proj_sep : i \in 1..Len(tbl)}
         IN  Whole(CHOOSE m \in seps : \A x \in seps : x <= m)

\* C4: the stages that have run are always an initial part of load,
\* aggregate, filter, kinematics, geometry, mass, report (each at most once,
\* in that order, none revisited), a finished run has run all seven and a
\* halted run has halted in the filter stage; the rows of the filtered set
\* are rows of the aggregated set; the cluster redshift, the velocity
\* column, the velocity offsets and their dispersion, the maximum projected
\* separation, the diameter and the dynamical mass are those of the filtered
\* set.
C4_ForwardOrderFromFilteredSet ==
    /\ StagesRun <= Len(Stages)
    /\ \A i \in 1..StagesRun : ran[i] = Stages[i]
    /\ pc = "done" => StagesRun = Len(Stages)
    /\ pc = "error" => StagesRun = 3
    /\ pc \notin {"done", "error"} => StagesRun < Len(Stages) /\ pc = Stages[StagesRun + 1]
    /\ StagesRun >= 3 =>
          \A i \in 1..Len(filtered_df) :
              \E j \in 1..Len(averaged_df) : Core(filtered_df[i]) = averaged_df[j]
    /\ StagesRun >= 4 =>
          LET n == Len(filtered_df)
          IN  /\ cluster_redshift = RDiv(SumOver(SpeczOf(filtered_df), 1..n), Whole(n))
              /\ \A i \in 1..n :
                    /\ filtered_df[i].velocity = [c_light |-> filtered_df[i].specz]
                    /\ filtered_df[i].v_dispersion
                          = VDispersion(filtered_df[i].specz, cluster_redshift)
              /\ disp = NpStd(VDispersionOf(filtered_df))
    /\ StagesRun >= 5 =>
          /\ max_sep_arcmin = LargestSep(filtered_df)
          /\ diameter = Diameter(cluster_redshift, max_sep_arcmin)
    /\ StagesRun >= 6 => M_dyn_solar = MassClass(disp, diameter).M_dyn_solar

\* a finished run in which the raw, the aggregated and the filtered table all
\* differ, and so do their mean redshifts and largest separations
C4_Witness ==
    /\ pc = "done"
    /\ Len(filtered_df) < Len(averaged_df)
    /\ Len(averaged_df) < Len(df)
    /\ cluster_redshift # SeriesMean(SpeczOf(averaged_df))
    /\ cluster_redshift # SeriesMean(SpeczOf(df))
    /\ max_sep_arcmin # LargestSep(averaged_df)

\* C5 as stated: after the kinematics stage, for every object of the filtered
\* set the velocity offset is exactly 0 when its redshift equals the cluster
\* redshift, and for z > -1 and z_cluster > -1 it has the sign of
\* z - z_cluster.
C5_ZeroAtClusterRedshift ==
    StagesRun >= 4 =>
        \A i \in 1..Len(filtered_df) :
            LET z == filtered_df[i].specz
                v == filtered_df[i].v_dispersion.c_light
            IN  /\ z = cluster_redshift => v = Whole(0)
                /\ (RCmp(z, Whole(-1)) > 0 /\ RCmp(cluster_redshift, Whole(-1)) > 0)
                      => (~IsNaN(v) /\ RSign(v) = RCmp(z, cluster_redshift))

\* C5 amended: after the kinematics stage, for every object of the filtered
\* set the velocity offset is exactly 0 when its redshift equals the cluster
\* redshift and that redshift is not -1 (at z = z_cluster = -1 the quotient
\* is 0/0, NaN), and for z > -1 and z_cluster > -1 it has the sign of
\* z - z_cluster.
C5_ZeroAtClusterRedshiftExceptMinusOne ==
    StagesRun >= 4 =>
        \A i \in 1..Len(filtered_df) :
            LET z == filtered_df[i].specz
                v == filtered_df[i].v_dispersion.c_light
            IN  /\ (z = cluster_redshift /\ z # Whole(-1)) => v = Whole(0)
                /\ (z = cluster_redshift /\ z = Whole(-1)) => IsNaN(v)
                /\ (RCmp(z, Whole(-1)) > 0 /\ RCmp(cluster_redshift, Whole(-1)) > 0)
                      => (~IsNaN(v) /\ RSign(v) = RCmp(z, cluster_redshift))

\* the kinematics stage has run on a set with an object at the cluster
\* redshift (not -1, offset 0), an object above it (offset positive) and an
\* object below it (offset negative)
C5_Witness ==
    /\ StagesRun >= 4
    /\ RCmp(cluster_redshift, Whole(-1)) > 0
    /\ \E i, j, k \in 1..Len(filtered_df) :
          /\ filtered_df[i].specz = cluster_redshift
          /\ filtered_df[i].v_dispersion.c_light = Whole(0)
          /\ RCmp(filtered_df[j].specz, cluster_redshift) > 0
          /\ RSign(filtered_df[j].v_dispersion.c_light) > 0
          /\ RCmp(filtered_df[k].specz, cluster_redshift) < 0
          /\ RSign(filtered_df[k].v_dispersion.c_light) < 0

\* C6: the mass M = 3 sigma^2 R / G, R = diameter / 2, and the mass in solar
\* masses: doubling the dispersion with the diameter fixed multiplies both by
\* exactly 4, doubling the diameter with the dispersion fixed by exactly 2.
C6_MassScaling ==
    /\ probe.step \in {"sigma2", "done"} =>
          /\ SciEq(probe.sigma2.M_dyn, SciMul(Sci(4, 0), probe.base.M_dyn))
          /\ SciEq(probe.sigma2.M_dyn_solar, SciMul(Sci(4, 0), probe.base.M_dyn_solar))
    /\ probe.step = "done" =>
          /\ SciEq(probe.diam2.M_dyn, SciMul(Sci(2, 0), probe.base.M_dyn))
          /\ SciEq(probe.diam2.M_dyn_solar, SciMul(Sci(2, 0), probe.base.M_dyn_solar))

\* the three evaluations are done for a dispersion of 1000 km/s and a
\* diameter of 2 Mpc, and the mass is not 0
C6_Witness ==
    /\ probe.step = "done"
    /\ probe.sigma = Sci(1, 3)
    /\ probe.diam = Sci(2, 0)
    /\ RSign(probe.base.M_dyn_solar.r) > 0

IsMember(r) == r.specz # Outlier

\* C7: in the scenario (NCluster distinct objects around 0.05 and one object
\* at z = 5.0) the filter removes exactly one object, the one at z = 5.0, and
\* keeps all the others; the cluster redshift is the mean of the redshifts
\* of the NCluster others, within 0.001 of 0.05.
C7_ScenarioRemovesOnlyTheOutlier ==
    /\ StagesRun >= 3 =>
          /\ Len(averaged_df) = NCluster + 1
          /\ Len(filtered_df) = Len(averaged_df) - 1
          /\ \A j \in 1..Len(averaged_df) : Kept(j) <=> averaged_df[j].specz # Outlier
    /\ StagesRun >= 4 =>
          LET members == SelectSeq(csv_file, IsMember)
              d == RSub(cluster_redshift, Frac(5, 100))
          IN  /\ Len(members) = NCluster
              /\ cluster_redshift = RDiv(SeriesSum(SpeczOf(members)), Whole(NCluster))
              /\ RCmp(d, Frac(1, 1000)) <= 0
              /\ RCmp(d, Frac(-1, 1000)) >= 0

\* a finished scenario run on a skewed sample: the outlier is gone and the
\* cluster redshift is not exactly 0.05
C7_Witness ==
    /\ pc = "done"
    /\ Len(filtered_df) = NCluster
    /\ \A i \in 1..Len(filtered_df) : filtered_df[i].specz # Outlier
    /\ cluster_redshift # Frac(5, 100)

\* C8: once created, df and averaged_df never change, and from the creation
\* of filtered_df on, a step changes filtered_df at most by adding the
\* columns velocity and v_dispersion: its rows and their objid, specz, ra,
\* dec and proj_sep (and the derived columns already there) stay as they are.
C8_OnlyDerivedColumnsAdded ==
    [][/\ StagesRun >= 1 => df' = df
       /\ StagesRun >= 2 => averaged_df' = averaged_df
       /\ StagesRun >= 3 =>
             /\ Len(filtered_df') = Len(filtered_df)
             /\ \A i \in 1..Len(filtered_df) :
                   /\ DOMAIN filtered_df[i] \subseteq DOMAIN filtered_df'[i]
                   /\ DOMAIN filtered_df'[i]
                         \subseteq DOMAIN filtered_df[i] \cup {"velocity", "v_dispersion"}
                   /\ \A c \in DOMAIN filtered_df[i] : filtered_df'[i][c] = filtered_df[i][c]]_vars

\* a finished run whose filtered table lost a row of the aggregated table and
\* carries the two derived columns
C8_Witness ==
    /\ pc = "done"
    /\ Len(filtered_df) >= 1
    /\ Len(filtered_df) < Len(averaged_df)
    /\ \A i \in 1..Len(filtered_df) :
          DOMAIN filtered_df[i] = CoreColumns \cup {"velocity", "v_dispersion"}

C11_AllOnTheLimits ==
    /\ StagesRun >= 4
    /\ Len(averaged_df) >= 2
    /\ std_redshift.sq = Whole(0)
    /\ Len(filtered_df) = Len(averaged_df)
    /\ cluster_redshift = mean_redshift

=============================================================================
